---- MODULE Spec2Model ----
(***************************************************************************)
(* Model of src/gemini/core.py: Gemini.generate_content (request, decode   *)
(* of the double-encoded positional payload, candidate extraction, retry)  *)
(* and GeminiSession (the three-slot metadata list, the recorded output,   *)
(* send_message and choose_candidate).                                     *)
(*                                                                         *)
(* Python values are modelled as records [t, s, a] so that values of any   *)
(* Python type can be compared:                                            *)
(*   t = "null"  None                                                      *)
(*   t = "str"   a str of at most one character, s                         *)
(*   t = "text"  a str holding a JSON document; a = <<the value it         *)
(*               encodes>>                                                 *)
(*   t = "arr"   a list, a = its elements                                  *)
(*   t = "exc"   a raised exception of class s, a = <<Str(message key)>>   *)
(*   t = "dict"  the empty dict                                             *)
(***************************************************************************)
EXTENDS Integers, Sequences, FiniteSets, TLC

\* ------------------------------------------------------------------------
\* Python values
\* ------------------------------------------------------------------------

PyNone == [t |-> "null", s |-> "", a |-> <<>>]

Str(c) == [t |-> "str", s |-> c, a |-> <<>>]

Arr(q) == [t |-> "arr", s |-> "", a |-> q]

Exc(cls, msg) == [t |-> "exc", s |-> cls, a |-> <<Str(msg)>>]

IsExc(v) == v.t = "exc"

\* json.dumps: the document is a str; it is never the value it encodes.
Dumps(v) == [t |-> "text", s |-> "", a |-> <<v>>]

\* json.loads: a str holding a document decodes to the encoded value, any
\* other str is rejected (JSONDecodeError, a ValueError), a non-str is a
\* TypeError.
Loads(x) ==
    IF IsExc(x) THEN x
    ELSE IF x.t = "text" THEN x.a[1]
    ELSE IF x.t = "str" THEN Exc("JSONDecodeError", "loads")
    ELSE Exc("TypeError", "loads")

\* Python truth value of a value: None, "" and [] are false.
Truthy(v) ==
    CASE v.t = "null" -> FALSE
      [] v.t = "str"  -> v.s # ""
      [] v.t = "text" -> TRUE
      [] v.t = "arr"  -> v.a # <<>>
      [] OTHER        -> TRUE

\* v[i] for i >= 0: lists by position, strs by character, None is not
\* subscriptable.  The documents of this model are longer than any index the
\* code uses, so indexing a document yields one of its characters.
Index(v, i) ==
    CASE IsExc(v)      -> v
      [] v.t = "arr"   -> IF i < Len(v.a) THEN v.a[i + 1]
                          ELSE Exc("IndexError", "list index out of range")
      [] v.t = "str"   -> IF i = 0 /\ v.s # "" THEN v
                          ELSE Exc("IndexError", "string index out of range")
      [] v.t = "text"  -> Str("[")
      [] OTHER         -> Exc("TypeError", "not subscriptable")

\* v[i][j] and v[i][j][k]
Path2(v, i, j) == Index(Index(v, i), j)

Path3(v, i, j, k) == Index(Index(Index(v, i), j), k)

\* The elements a for-loop or comprehension visits (v is truthy here).
Iter(v) ==
    CASE v.t = "arr"  -> v.a
      [] v.t = "str"  -> <<v>>
      [] v.t = "text" -> <<Str("[")>>
      [] OTHER        -> <<>>

\* The first exception among the values of a sequence (evaluation order),
\* or PyNone when none was raised.
FirstExc(q) ==
    IF \A k \in 1..Len(q) : ~IsExc(q[k]) THEN PyNone
    ELSE q[CHOOSE k \in 1..Len(q) :
              IsExc(q[k]) /\ \A j \in 1..(k - 1) : ~IsExc(q[j])]

\* ------------------------------------------------------------------------
\* Gemini.generate_content: one exchange with the service
\* ------------------------------------------------------------------------

\* A raised exception, or PyNone for "nothing raised".
NoExc == PyNone

\* The HTTP status the code accepts.
StatusOK == 200

\* An HTTP response: raised = the post itself threw, status_code, and the
\* lines of response.text (response.text.split("\n")).
Response(raised, status, lines) ==
    [raised |-> raised, status_code |-> status, lines |-> lines]

\* response.text.split("\n")[2]
FramingLine(resp) == Index(Arr(resp.lines), 2)

\* The decoding try-block (lines 270-285), by stage.  Every exception
\* raised inside the block, its own APIError for a body whose candidate
\* list is still false included, is caught by "except Exception" and
\* replaced by the APIError of line 283.
DecodeCheck(body) ==
    IF IsExc(Index(body, 4)) \/ ~Truthy(Index(body, 4))
    THEN Exc("APIError", "parse candidates")
    ELSE body

\* Mutant: the fallback reads the primary location again.
DecodeSelect_PrimaryAgain(outer, primary) ==
    IF IsExc(Index(primary, 4)) THEN DecodeCheck(Index(primary, 4))
    ELSE IF ~Truthy(Index(primary, 4))
    THEN DecodeCheck(Loads(Path2(outer, 0, 2)))
    ELSE DecodeCheck(primary)

\* if not body[4]: body = json.loads(json.loads(line)[4][2])
DecodeSelect(outer, primary) ==
    IF IsExc(Index(primary, 4)) THEN DecodeCheck(Index(primary, 4))
    ELSE IF ~Truthy(Index(primary, 4))
    THEN DecodeCheck(Loads(Path2(outer, 4, 2)))
    ELSE DecodeCheck(primary)

\* body = json.loads(json.loads(line)[0][2])
DecodePrimary(outer) == DecodeSelect(outer, Loads(Path2(outer, 0, 2)))

\* The body the candidates are read from, or the APIError.
DecodeBody(resp) == DecodePrimary(Loads(FramingLine(resp)))

\* The value of an "A and [...] or []" expression and what it raised.
Raised(e) == [exc |-> e, val |-> <<>>]

EmptyList == [exc |-> NoExc, val |-> <<>>]

\* A comprehension over image entries: the images, unless building one of
\* them raised.
Images(imgs) ==
    IF IsExc(FirstExc([k \in 1..Len(imgs) |->
                 FirstExc(<<imgs[k].url, imgs[k].title, imgs[k].alt>>)]))
    THEN Raised(FirstExc([k \in 1..Len(imgs) |->
                 FirstExc(<<imgs[k].url, imgs[k].title, imgs[k].alt>>)]))
    ELSE [exc |-> NoExc, val |-> imgs]

\* WebImage(url=image[0][0][0], title=image[2], alt=image[0][4])
WebImageOf(image) ==
    [url   |-> Path3(image, 0, 0, 0),
     title |-> Index(image, 2),
     alt   |-> Path2(image, 0, 4)]

\* f"[Generated image {n}]"
GeneratedTitle(n) ==
    IF IsExc(n) THEN n
    ELSE [t |-> "fmt", s |-> "[Generated image {}]", a |-> <<n>>]

\* GeneratedImage(url=image[0][3][3], title=f"[Generated image {image[3][6]}]",
\*                alt=image[3][5][i], cookies=self.cookies)
GeneratedImageOf(image, i, jar) ==
    [url     |-> Path3(image, 0, 3, 3),
     title   |-> GeneratedTitle(Path2(image, 3, 6)),
     alt     |-> Path3(image, 3, 5, i),
     cookies |-> Str(jar)]

\* candidate[4] and [WebImage(...) for image in candidate[4]] or []
WebImagesFrom(c4) ==
    IF IsExc(c4) THEN Raised(c4)
    ELSE IF ~Truthy(c4) THEN EmptyList
    ELSE Images([k \in 1..Len(Iter(c4)) |-> WebImageOf(Iter(c4)[k])])

WebImages(candidate) == WebImagesFrom(Index(candidate, 4))

\* candidate[12] and candidate[12][7] and candidate[12][7][0]
\*   and [GeneratedImage(...) for i, image in enumerate(...)] or []
GeneratedImagesFrom(src, jar) ==
    IF IsExc(src) THEN Raised(src)
    ELSE IF ~Truthy(src) THEN EmptyList
    ELSE Images([k \in 1..Len(Iter(src)) |->
                    GeneratedImageOf(Iter(src)[k], k - 1, jar)])

GeneratedImagesAt7(c127, jar) ==
    IF IsExc(c127) THEN Raised(c127)
    ELSE IF ~Truthy(c127) THEN EmptyList
    ELSE GeneratedImagesFrom(Index(c127, 0), jar)

GeneratedImagesAt12(c12, jar) ==
    IF IsExc(c12) THEN Raised(c12)
    ELSE IF ~Truthy(c12) THEN EmptyList
    ELSE GeneratedImagesAt7(Index(c12, 7), jar)

GeneratedImages(candidate, jar) ==
    GeneratedImagesAt12(Index(candidate, 12), jar)

\* Candidate(rcid=candidate[0], text=candidate[1][0], web_images=...,
\*           generated_images=...), and the first exception of the pass.
MakeCandidate(w, g, rcid, text) ==
    [exc |-> FirstExc(<<w.exc, g.exc, rcid, text>>),
     val |-> [rcid |-> rcid, text |-> text,
              web_images |-> w.val, generated_images |-> g.val]]

\* One pass of the loop body: web_images, generated_images, then the
\* Candidate.
CandidateOf(candidate, jar) ==
    MakeCandidate(WebImages(candidate), GeneratedImages(candidate, jar),
                  Index(candidate, 0), Path2(candidate, 1, 0))

\* Mutant: a call that fails leaves the client with a refreshed cookie jar.
Failure_RefreshedJar(e, jar, posts) ==
    [exc |-> e, out |-> <<>>, cookies |-> "k1", posts |-> posts]

\* The outcome of one generate_content call: the exception raised or the
\* output returned (out is <<>> or <<the GeminiOutput>>), the client's
\* cookies afterwards and the posts made.
Failure(e, jar, posts) ==
    [exc |-> e, out |-> <<>>, cookies |-> jar, posts |-> posts]

\* GeminiOutput (models/base.py): metadata is a list of str, candidates a
\* list of Candidate, chosen defaults to 0.  Anything but a list as metadata
\* is rejected by the model's validation.
GeminiOutput(metadata, candidates, jar) ==
    IF metadata.t # "arr"
    THEN Failure(Exc("ValidationError", "metadata"), jar, 1)
    ELSE [exc |-> NoExc,
          out |-> <<[metadata |-> metadata.a, candidates |-> candidates,
                     chosen |-> 0]>>,
          cookies |-> jar, posts |-> 1]

\* bool(GeminiOutput): the model class defines neither __bool__ nor __len__.
OutputTruthy(out) == TRUE

\* GeminiOutput.rcid: candidates[chosen].rcid, with Python's negative
\* indices.
OutputRcid(o) ==
    IF o.chosen >= 0 /\ o.chosen < Len(o.candidates)
    THEN o.candidates[o.chosen + 1].rcid
    ELSE IF o.chosen < 0 /\ o.chosen >= 0 - Len(o.candidates)
    THEN o.candidates[Len(o.candidates) + o.chosen + 1].rcid
    ELSE Exc("IndexError", "list index out of range")

\* Lines 323-333: e is the first exception of the loop.  Only IndexError is
\* caught (and replaced); an empty list of candidates raises GeminiError.
BuildOutput(metadata, cands, e, jar) ==
    IF IsExc(e)
    THEN IF e.s = "IndexError"
         THEN Failure(Exc("APIError", "invalid structure"), jar, 1)
         ELSE Failure(e, jar, 1)
    ELSE IF cands = <<>>
    THEN Failure(Exc("GeminiError", "no candidates"), jar, 1)
    ELSE GeminiOutput(metadata, [k \in 1..Len(cands) |-> cands[k].val], jar)

\* Lines 287-322: the loop over body[4].
ExtractFrom(metadata, cands, jar) ==
    BuildOutput(metadata, cands,
                FirstExc([k \in 1..Len(cands) |-> cands[k].exc]), jar)

\* Mutant: the candidates are collected in reverse order.
Extract_Reversed(body, jar) ==
    IF IsExc(body) THEN Failure(body, jar, 1)
    ELSE ExtractFrom(Index(body, 1),
                     [k \in 1..Len(Iter(Index(body, 4))) |->
                         CandidateOf(Iter(Index(body, 4))
                                         [Len(Iter(Index(body, 4))) + 1 - k],
                                     jar)],
                     jar)

Extract(body, jar) ==
    IF IsExc(body) THEN Failure(body, jar, 1)
    ELSE ExtractFrom(Index(body, 1),
                     [k \in 1..Len(Iter(Index(body, 4))) |->
                         CandidateOf(Iter(Index(body, 4))[k], jar)],
                     jar)

\* Mutant: a non-success status is reported as the post's time-out.
Attempt_StatusAsTimeout(resp, jar) ==
    IF resp.raised \/ resp.status_code # StatusOK
    THEN Failure(Exc("TimeoutError", "timed out"), jar, 1)
    ELSE Extract(DecodeBody(resp), jar)

\* Lines 254-333: post, status check, decode, extraction.
Attempt(resp, jar) ==
    IF resp.raised THEN Failure(Exc("TimeoutError", "timed out"), jar, 1)
    ELSE IF resp.status_code # StatusOK
    THEN Failure(Exc("APIError", "status"), jar, 1)
    ELSE Extract(DecodeBody(resp), jar)

\* The number of passes of the retry loop, "for _ in range(2)".
RetryAttempts == 2

\* The responses left after n posts.
Drop(rs, n) == IF n >= Len(rs) THEN <<>> ELSE SubSeq(rs, n + 1, Len(rs))

\* generate_content(prompt, session) with self.cookies = jar: rs are the
\* responses the service gives to the successive posts (a post beyond them
\* times out), fresh the cookie jar a refresh yields ("" when none can be
\* obtained, which makes _get_auto_cookies raise after storing it).
RECURSIVE GenerateContent(_, _, _)
RECURSIVE RetryLoop(_, _, _, _)
RECURSIVE RetryStep(_, _, _, _, _)

\* Lines 335-350, after the first exchange ended with result first.
AfterAttempt(first, rs, fresh) ==
    IF IsExc(first.exc) THEN first
    ELSE IF OutputTruthy(first.out[1]) THEN first
    ELSE RetryLoop(0, rs, fresh, 1)

GenerateContent(rs, jar, fresh) ==
    IF rs = <<>> THEN Failure(Exc("TimeoutError", "timed out"), jar, 1)
    ELSE AfterAttempt(Attempt(Head(rs), jar), Tail(rs), fresh)

\* Pass k of "for _ in range(2)": refresh, call generate_content again,
\* leave the loop when it returns, go on when it raises; the loop's else
\* raises the APIError of line 348.
RetryLoop(k, rs, fresh, posts) ==
    IF k = RetryAttempts
    THEN Failure(Exc("APIError", "establish session"), fresh, posts)
    ELSE IF fresh = ""
    THEN Failure(Exc("Exception", "cookies must be provided"), fresh, posts)
    ELSE RetryStep(k, rs, fresh, posts, GenerateContent(rs, fresh, fresh))

RetryStep(k, rs, fresh, posts, r) ==
    IF IsExc(r.exc)
    THEN RetryLoop(k + 1, Drop(rs, r.posts), fresh, posts + r.posts)
    ELSE [r EXCEPT !.posts = posts + r.posts]

\* ------------------------------------------------------------------------
\* GeminiSession: pure parts
\* ------------------------------------------------------------------------

\* self.__metadata = [None, None, None]
EmptyMetadata == <<PyNone, PyNone, PyNone>>

\* The most elements the metadata setter accepts.
MetadataLimit == 3

\* Mutant: the setter replaces the whole list, clearing the slots the value
\* does not cover.
SetMetadata_Replace(meta, value) ==
    IF Len(value) > MetadataLimit
    THEN [exc |-> Exc("ValueError", "metadata cannot exceed 3 elements"),
          meta |-> meta]
    ELSE [exc |-> NoExc,
          meta |-> [i \in 1..Len(meta) |->
                      IF i <= Len(value) THEN value[i] ELSE PyNone]]

\* Mutant: the slice is assigned before the length is checked.
SetMetadata_AssignThenRaise(meta, value) ==
    [exc  |-> IF Len(value) > MetadataLimit
              THEN Exc("ValueError", "metadata cannot exceed 3 elements")
              ELSE NoExc,
     meta |-> value \o SubSeq(meta, Len(value) + 1, Len(meta))]

\* Mutant: no length check at all.
SetMetadata_NoLimit(meta, value) ==
    [exc |-> NoExc, meta |-> value \o SubSeq(meta, Len(value) + 1, Len(meta))]

\* metadata.setter: raises ValueError for more than 3 elements, otherwise
\* self.__metadata[:len(value)] = value (slice assignment).
SetMetadata(meta, value) ==
    IF Len(value) > MetadataLimit
    THEN [exc |-> Exc("ValueError", "metadata cannot exceed 3 elements"),
          meta |-> meta]
    ELSE [exc |-> NoExc,
          meta |-> value \o SubSeq(meta, Len(value) + 1, Len(meta))]

\* cid/rid/rcid setters: self.__metadata[i] = value  (slot = i + 1)
SetSlot(meta, slot, value) == [meta EXCEPT ![slot] = value]

\* cid/rid/rcid getters
Cid(meta) == meta[1]

Rid(meta) == meta[2]

Rcid(meta) == meta[3]

\* ------------------------------------------------------------------------
\* Inputs: response bodies of the service and arguments of the session API
\* ------------------------------------------------------------------------

N == PyNone

\* A raw web image entry: url = image[0][0][0], title = image[2],
\* alt = image[0][4].
RawWebImage(url, title, alt) ==
    Arr(<<Arr(<<Arr(<<Str(url)>>), N, N, N, Str(alt)>>), N, Str(title)>>)

\* A raw generated image entry: url = image[0][3][3], number = image[3][6],
\* alternative texts = image[3][5].
RawGeneratedImage(url, num, alts) ==
    Arr(<<Arr(<<N, N, N, Arr(<<N, N, N, Str(url)>>)>>), N, N,
          Arr(<<N, N, N, N, N, Arr(alts), Str(num)>>)>>)

\* A raw candidate entry of 13 positions: [0] the reply candidate id,
\* [1][0] the text, [4] the web images, [12][7][0] the generated images.
RawCandidate(rcid, text, web, gen) ==
    Arr(<<Str(rcid), Arr(<<Str(text)>>), N, N, web, N, N, N, N, N, N, N, gen>>)

\* candidate[12] carrying the generated images at [7][0]
GenBlock(images) == Arr(<<N, N, N, N, N, N, N, Arr(<<Arr(images)>>)>>)

CandPlain(rcid) == RawCandidate(rcid, "t", N, N)

CandWeb(rcid) == RawCandidate(rcid, "t", Arr(<<RawWebImage("u", "i", "l")>>), N)

CandGen(rcid) ==
    RawCandidate(rcid, "t", N, GenBlock(<<RawGeneratedImage("v", "7", <<Str("k")>>)>>))

\* A decoded body: [1] the metadata, [4] the candidate list.
Body(meta, cands) == Arr(<<N, meta, N, N, cands>>)

\* The framing: line 2 of the text is a document whose [0][2] (primary) and
\* [4][2] (secondary) are themselves documents.
Framed(outer) == Response(FALSE, StatusOK, <<Str(")"), Str(""), outer>>)

PrimaryShape(body) ==
    Framed(Dumps(Arr(<<Arr(<<Str("w"), N, Dumps(body)>>)>>)))

\* The primary document is a body whose [4] is the false value empty4.
SecondaryShape(body, empty4) ==
    Framed(Dumps(Arr(<<Arr(<<Str("w"), N, Dumps(Body(Arr(<<>>), empty4))>>),
                       N, N, N,
                       Arr(<<Str("w"), N, Dumps(body)>>)>>)))

\* Upstream identifiers of a body: conversation id, reply id, and a third
\* element that is none of the candidates' ids.
MetaIds == <<Str("c"), Str("r"), Str("z"), Str("y"), Str("w")>>

\* The longest metadata list a body or a caller supplies.
MaxMetaLen == 4

MetaOfLen(k) == Arr(SubSeq(MetaIds, 1, k))

\* The logical bodies the service answers with.
GoodBodies ==
    <<Body(MetaOfLen(3), Arr(<<CandWeb("p"), CandGen("q")>>)),
      Body(MetaOfLen(2), Arr(<<CandPlain("p")>>)),
      Body(MetaOfLen(MaxMetaLen), Arr(<<CandPlain("q")>>))>>

\* The false values a primary candidate list takes.
FalsyLists == <<N, Arr(<<>>)>>

\* Each good body in the primary shape, then in the secondary shape with
\* each false primary list.
PrimaryResponses == [i \in 1..Len(GoodBodies) |-> PrimaryShape(GoodBodies[i])]

SecondaryResponses(e) ==
    [i \in 1..Len(GoodBodies) |-> SecondaryShape(GoodBodies[i], e)]

GoodResponses ==
    PrimaryResponses \o SecondaryResponses(FalsyLists[1])
                     \o SecondaryResponses(FalsyLists[2])

\* Responses on which the turn fails.
BadResponses ==
    <<Response(TRUE, 0, <<>>),                         \* the post raised
      Response(FALSE, 500, <<>>),                      \* non-success status
      Response(FALSE, StatusOK, <<Str(")")>>),         \* framing line absent
      Framed(Str("{")),                                \* line is not JSON
      Framed(Dumps(Arr(<<Arr(<<Str("w"), N, Str("{")>>)>>))),  \* inner not JSON
      Framed(Dumps(Arr(<<Arr(<<Str("w"), N, N>>)>>))), \* inner is null
      PrimaryShape(Arr(<<N, MetaOfLen(3)>>)),          \* body without [4]
      PrimaryShape(Body(MetaOfLen(3), Arr(<<>>))),     \* empty, no secondary
      SecondaryShape(Body(MetaOfLen(3), Arr(<<>>)), N),  \* both empty
      PrimaryShape(Body(MetaOfLen(3), Arr(<<Arr(<<Str("p"), Arr(<<Str("t")>>)>>)>>))),
                                                       \* entry without [4]
      PrimaryShape(Body(MetaOfLen(3),
          Arr(<<Arr(<<Str("p"), Arr(<<Str("t")>>), N, N, N>>)>>))),
                                                       \* entry without [12]
      PrimaryShape(Body(MetaOfLen(3), Arr(<<CandPlain("p"), N>>))),
                                                       \* entry is null
      PrimaryShape(Body(N, Arr(<<CandPlain("p")>>)))   \* metadata is null
    >>

\* The responses of the service, by number.
Responses == GoodResponses \o BadResponses

\* Classes of responses, as sets of response numbers.
NumbersOf(rs) == { i \in 1..Len(Responses) : Responses[i] \in rs }

\* The post raised, or the status is not 200.
TransportFailures ==
    { i \in 1..Len(Responses) :
        Responses[i].raised \/ Responses[i].status_code # StatusOK }

\* A well-formed body whose candidate list has zero entries: at the primary
\* location with nothing at the secondary one, and at the secondary
\* location of a response whose primary list is None.
EmptyCandidateLists ==
    NumbersOf({ PrimaryShape(Body(MetaOfLen(3), Arr(<<>>))),
                SecondaryShape(Body(MetaOfLen(3), Arr(<<>>)), N) })

\* Responses that pass the status check and on which the decoding block
\* (lines 270-285) raises, and those it accepts but on which the extraction
\* (lines 287-333) raises.
DecodeFailures ==
    { i \in 1..Len(Responses) \ TransportFailures :
        IsExc(DecodeBody(Responses[i])) }

ExtractionFailures ==
    { i \in 1..Len(Responses) \ (TransportFailures \cup DecodeFailures) :
        IsExc(Attempt(Responses[i], "k0").exc) }

\* What the service answers to the successive posts of one call, as
\* response numbers: each response alone (a further post would time out),
\* and each response a retry would follow, followed by a good one.
RetryExchanges == { <<i, 1>> : i \in TransportFailures \cup EmptyCandidateLists }

Exchanges == { <<i>> : i \in 1..Len(Responses) } \cup RetryExchanges

ResponsesOf(x) == [k \in 1..Len(x) |-> Responses[x[k]]]

\* Metadata lists a caller passes: <<>>, <<a>>, <<a, b>>, ...
CallerIds == <<Str("a"), Str("b"), Str("d"), Str("e"), Str("f")>>

MetaArgs == { SubSeq(CallerIds, 1, k) : k \in 0..MaxMetaLen }

\* Values a caller gives a single slot.
SlotArgs == {Str("x")}

\* ------------------------------------------------------------------------
\* State
\* ------------------------------------------------------------------------

\* The GeminiSession objects of a run.
Sessions == {1, 2}

\* The session a single-session run uses.
Solo == {1}

\* GeminiOutput objects one run creates.
MaxOutputs == 2

\* Calls of the session API in one run (construction apart).
MaxOps == 3

VARIABLES
    cookies,    \* Gemini.cookies, the client's cookie jar (its name)
    heap,       \* the GeminiOutput objects created so far; a reference to
                \* one is its position, 0 is None
    sessions,   \* per session: alive, its __metadata list, gemini_output
    last,       \* the call that ended last and how it ended
    nops        \* calls made

vars == <<cookies, heap, sessions, last, nops>>

NoSession == [alive |-> FALSE, metadata |-> EmptyMetadata, gemini_output |-> 0]

\* The record of a call: op, the session, the exception raised (NoExc when
\* it returned), the index and value arguments, the exchange served, the
\* metadata the request carried, the output returned, the posts made, and
\* before: the two calls that preceded it, latest first, each as
\* <<op, session, returned normally, index, output>>.
Summary(c) == <<c.op, c.s, ~IsExc(c.exc), c.idx, c.out>>

NoCall == <<"none", 0, TRUE, 0, 0>>

Call(op, s, exc) ==
    [op |-> op, s |-> s, exc |-> exc, idx |-> 0, val |-> <<>>,
     resp |-> <<>>, req |-> <<>>, out |-> 0, posts |-> 0,
     before |-> <<Summary(last), last.before[1]>>]

Init ==
    /\ cookies = "k0"
    /\ heap = <<>>
    /\ sessions = [s \in Sessions |-> NoSession]
    /\ last = [op |-> "none", s |-> 0, exc |-> NoExc, idx |-> 0, val |-> <<>>,
               resp |-> <<>>, req |-> <<>>, out |-> 0, posts |-> 0,
               before |-> <<NoCall, NoCall>>]
    /\ nops = 0

\* ------------------------------------------------------------------------
\* GeminiSession operations
\* ------------------------------------------------------------------------

\* Mutant: the metadata list is applied after the three ids.
SessionInit_MetadataLast(metadata, cid, rid, rcid) ==
    LET m1 == IF Truthy(cid) THEN SetSlot(EmptyMetadata, 1, cid)
              ELSE EmptyMetadata
        m2 == IF Truthy(rid) THEN SetSlot(m1, 2, rid) ELSE m1
        m3 == IF Truthy(rcid) THEN SetSlot(m2, 3, rcid) ELSE m2
        m4 == IF Truthy(metadata) THEN SetMetadata(m3, metadata.a)
              ELSE [exc |-> NoExc, meta |-> m3]
    IN  IF IsExc(m4.exc) THEN [exc |-> m4.exc, meta |-> EmptyMetadata]
        ELSE [exc |-> NoExc, meta |-> m4.meta]

\* GeminiSession.__init__(gemini, metadata, cid, rid, rcid): each argument
\* is applied only when it is true (not None, not empty).
SessionInit(metadata, cid, rid, rcid) ==
    LET m0 == IF Truthy(metadata)
              THEN SetMetadata(EmptyMetadata, metadata.a)
              ELSE [exc |-> NoExc, meta |-> EmptyMetadata]
        m1 == IF Truthy(cid) THEN SetSlot(m0.meta, 1, cid) ELSE m0.meta
        m2 == IF Truthy(rid) THEN SetSlot(m1, 2, rid) ELSE m1
        m3 == IF Truthy(rcid) THEN SetSlot(m2, 3, rcid) ELSE m2
    IN  IF IsExc(m0.exc) THEN [exc |-> m0.exc, meta |-> EmptyMetadata]
        ELSE [exc |-> NoExc, meta |-> m3]

\* The seeds sessions are constructed with.
Seeds ==
    { <<PyNone, PyNone, PyNone, PyNone>>,
      <<Arr(SubSeq(CallerIds, 1, 3)), PyNone, PyNone, Str("x")>>,
      <<Arr(SubSeq(CallerIds, 1, MaxMetaLen)), PyNone, PyNone, PyNone>> }

GeminiSession_init(s, seed) ==
    /\ ~sessions[s].alive
    /\ LET r == SessionInit(seed[1], seed[2], seed[3], seed[4])
       IN  /\ sessions' = IF IsExc(r.exc) THEN sessions
                          ELSE [sessions EXCEPT ![s] =
                                  [alive |-> TRUE, metadata |-> r.meta,
                                   gemini_output |-> 0]]
           /\ last' = [Call("__init__", s, r.exc) EXCEPT
                         !.val = IF seed[1] = PyNone THEN <<>> ELSE seed[1].a]
    /\ UNCHANGED <<cookies, heap, nops>>

\* session.metadata = value
metadata_setter(s, value) ==
    /\ sessions[s].alive
    /\ nops < MaxOps
    /\ LET r == SetMetadata(sessions[s].metadata, value)
       IN  /\ sessions' = [sessions EXCEPT ![s].metadata = r.meta]
           /\ last' = [Call("metadata", s, r.exc) EXCEPT !.val = value]
    /\ nops' = nops + 1
    /\ UNCHANGED <<cookies, heap>>

\* session.cid = value
cid_setter(s, value) ==
    /\ sessions[s].alive
    /\ nops < MaxOps
    /\ sessions' = [sessions EXCEPT ![s].metadata = SetSlot(@, 1, value)]
    /\ last' = [Call("cid", s, NoExc) EXCEPT !.val = <<value>>]
    /\ nops' = nops + 1
    /\ UNCHANGED <<cookies, heap>>

\* session.rid = value
rid_setter(s, value) ==
    /\ sessions[s].alive
    /\ nops < MaxOps
    /\ sessions' = [sessions EXCEPT ![s].metadata = SetSlot(@, 2, value)]
    /\ last' = [Call("rid", s, NoExc) EXCEPT !.val = <<value>>]
    /\ nops' = nops + 1
    /\ UNCHANGED <<cookies, heap>>

\* session.rcid = value
rcid_setter(s, value) ==
    /\ sessions[s].alive
    /\ nops < MaxOps
    /\ sessions' = [sessions EXCEPT ![s].metadata = SetSlot(@, 3, value)]
    /\ last' = [Call("rcid", s, NoExc) EXCEPT !.val = <<value>>]
    /\ nops' = nops + 1
    /\ UNCHANGED <<cookies, heap>>

\* Mutant: self.rcid = value.rcid comes before self.metadata = value.metadata.
SetGeminiOutput_RcidFirst(sess, ref, o) ==
    IF IsExc(OutputRcid(o))
    THEN [exc |-> OutputRcid(o), sess |-> [sess EXCEPT !.gemini_output = ref]]
    ELSE [exc  |-> SetMetadata(SetSlot(sess.metadata, 3, OutputRcid(o)),
                               o.metadata).exc,
          sess |-> [sess EXCEPT
                      !.gemini_output = ref,
                      !.metadata = SetMetadata(SetSlot(@, 3, OutputRcid(o)),
                                               o.metadata).meta]]

\* __setattr__("gemini_output", value) for a GeminiOutput value: the
\* attribute is stored first, then self.metadata = value.metadata, then
\* self.rcid = value.rcid; an exception ends the sequence where it is raised.
SetGeminiOutput(sess, ref, o) ==
    LET stored == [sess EXCEPT !.gemini_output = ref]
        m      == SetMetadata(sess.metadata, o.metadata)
        rc     == OutputRcid(o)
    IN  IF IsExc(m.exc) THEN [exc |-> m.exc, sess |-> stored]
        ELSE IF IsExc(rc)
        THEN [exc |-> rc, sess |-> [stored EXCEPT !.metadata = m.meta]]
        ELSE [exc |-> NoExc,
              sess |-> [stored EXCEPT !.metadata = SetSlot(m.meta, 3, rc)]]

\* session.gemini_output = output, by the caller
gemini_output_setter(s, ref) ==
    /\ sessions[s].alive
    /\ nops < MaxOps
    /\ ref \in 1..Len(heap)
    /\ LET r == SetGeminiOutput(sessions[s], ref, heap[ref])
       IN  /\ sessions' = [sessions EXCEPT ![s] = r.sess]
           /\ last' = [Call("gemini_output", s, r.exc) EXCEPT !.out = ref]
    /\ nops' = nops + 1
    /\ UNCHANGED <<cookies, heap>>

\* Mutant: a turn that fails drops the session's stored output.
SessionAfterTurn_ResetOnFailure(sess, r, ref) ==
    IF IsExc(r.exc) THEN [sess EXCEPT !.gemini_output = 0] ELSE sess

\* What generate_content does to the session it was given, once the
\* exchange has ended with result r (whose output, if any, is object ref):
\* nothing; the output is only returned.
SessionAfterTurn(sess, r, ref) == sess

\* The cookie jars a refresh yields.
FreshJars == {"k1"}

\* session.send_message(prompt) = self.gemini.generate_content(prompt, self),
\* here with the call's outcome r.  The request carries "session and
\* session.metadata".
Send(s, rs, r) ==
    /\ sessions[s].alive
    /\ nops < MaxOps
    /\ IsExc(r.exc) \/ Len(heap) < MaxOutputs
    /\ heap' = IF IsExc(r.exc) THEN heap ELSE Append(heap, r.out[1])
    /\ cookies' = r.cookies
    /\ sessions' = [sessions EXCEPT ![s] =
                      SessionAfterTurn(@, r, IF IsExc(r.exc) THEN 0
                                             ELSE Len(heap) + 1)]
    /\ last' = [Call("send_message", s, r.exc) EXCEPT
                  !.resp = rs, !.req = sessions[s].metadata,
                  !.out = IF IsExc(r.exc) THEN 0 ELSE Len(heap) + 1,
                  !.posts = r.posts]
    /\ nops' = nops + 1

send_message(s, rs, fresh) ==
    Send(s, rs, GenerateContent(ResponsesOf(rs), cookies, fresh))

\* The largest index a caller passes to choose_candidate.
MaxIndex == 2

IndexArgs == (0 - MaxIndex - 1)..MaxIndex

\* The ValueError of line 647 and the ValueError of line 652.
NoPriorOutput == Exc("ValueError", "no previous gemini_output")

IndexOutOfRange == Exc("ValueError", "index exceeds the number of candidates")

\* The class of an exception, which is what a caller's except clause sees.
Kind(e) == e.s

\* Mutant: the bound check is "index > len(candidates)".
ChooseCandidate_OffByOne(sess, hp, index) ==
    IF sess.gemini_output = 0
    THEN [exc |-> NoPriorOutput, sess |-> sess, heap |-> hp]
    ELSE IF index > Len(hp[sess.gemini_output].candidates)
    THEN [exc |-> IndexOutOfRange, sess |-> sess, heap |-> hp]
    ELSE IF IsExc(OutputRcid([hp[sess.gemini_output] EXCEPT !.chosen = index]))
    THEN [exc |-> OutputRcid([hp[sess.gemini_output] EXCEPT !.chosen = index]),
          sess |-> sess,
          heap |-> [hp EXCEPT ![sess.gemini_output].chosen = index]]
    ELSE [exc |-> NoExc,
          sess |-> [sess EXCEPT !.metadata =
                      SetSlot(@, 3, OutputRcid([hp[sess.gemini_output]
                                                  EXCEPT !.chosen = index]))],
          heap |-> [hp EXCEPT ![sess.gemini_output].chosen = index]]

\* Mutant: without a previous output the call returns quietly.
ChooseCandidate_QuietWithoutOutput(sess, hp, index) ==
    IF sess.gemini_output = 0
    THEN [exc |-> NoExc, sess |-> sess, heap |-> hp]
    ELSE IF index >= Len(hp[sess.gemini_output].candidates)
    THEN [exc |-> IndexOutOfRange, sess |-> sess, heap |-> hp]
    ELSE IF IsExc(OutputRcid([hp[sess.gemini_output] EXCEPT !.chosen = index]))
    THEN [exc |-> OutputRcid([hp[sess.gemini_output] EXCEPT !.chosen = index]),
          sess |-> sess,
          heap |-> [hp EXCEPT ![sess.gemini_output].chosen = index]]
    ELSE [exc |-> NoExc,
          sess |-> [sess EXCEPT !.metadata =
                      SetSlot(@, 3, OutputRcid([hp[sess.gemini_output]
                                                  EXCEPT !.chosen = index]))],
          heap |-> [hp EXCEPT ![sess.gemini_output].chosen = index]]

\* session.choose_candidate(index): self.gemini_output.chosen = index is
\* done before self.gemini_output.rcid is read.
ChooseCandidate(sess, hp, index) ==
    IF sess.gemini_output = 0
    THEN [exc |-> NoPriorOutput, sess |-> sess, heap |-> hp]
    ELSE IF index >= Len(hp[sess.gemini_output].candidates)
    THEN [exc |-> IndexOutOfRange, sess |-> sess, heap |-> hp]
    ELSE IF IsExc(OutputRcid([hp[sess.gemini_output] EXCEPT !.chosen = index]))
    THEN [exc |-> OutputRcid([hp[sess.gemini_output] EXCEPT !.chosen = index]),
          sess |-> sess,
          heap |-> [hp EXCEPT ![sess.gemini_output].chosen = index]]
    ELSE [exc |-> NoExc,
          sess |-> [sess EXCEPT !.metadata =
                      SetSlot(@, 3, OutputRcid([hp[sess.gemini_output]
                                                  EXCEPT !.chosen = index]))],
          heap |-> [hp EXCEPT ![sess.gemini_output].chosen = index]]

\* The call with its outcome r.
Choose(s, index, r) ==
    /\ sessions[s].alive
    /\ nops < MaxOps
    /\ sessions' = [sessions EXCEPT ![s] = r.sess]
    /\ heap' = r.heap
    /\ last' = [Call("choose_candidate", s, r.exc) EXCEPT
                  !.idx = index,
                  !.out = IF IsExc(r.exc) THEN 0 ELSE sessions[s].gemini_output]
    /\ nops' = nops + 1
    /\ UNCHANGED cookies

choose_candidate(s, index) ==
    Choose(s, index, ChooseCandidate(sessions[s], heap, index))

\* ------------------------------------------------------------------------
\* GeminiClient (client.py): generate_content
\* ------------------------------------------------------------------------

\* The empty dict, {}.
EmptyDict == [t |-> "dict", s |-> "", a |-> <<>>]

\* _construct_payload(self, prompt, nonce) called with the arguments args:
\* a call without the nonce is a TypeError.
ConstructPayload(args) ==
    IF Len(args) # 2 THEN Exc("TypeError", "missing required argument")
    ELSE Dumps(Arr(<<N, Dumps(Arr(<<Arr(<<args[1]>>), N, N>>))>>))

\* post_prompt(prompt): data = self._construct_payload(prompt), then the
\* post, whose response resp is returned unless the post raised.
ClientPostPrompt(payload, resp) ==
    IF IsExc(payload) THEN payload
    ELSE IF resp.raised THEN Exc("TimeoutException", "timed out")
    ELSE resp

\* response.json(): the text parsed as one document.
ResponseJson(resp) ==
    IF Len(resp.lines) = 1 THEN Loads(resp.lines[1])
    ELSE Exc("JSONDecodeError", "loads")

\* generate_content(prompt), posted being what post_prompt returned or
\* raised: every exception of the try block, the ValueError for a status
\* other than 200 included, is printed and {} is returned.
ClientGenerateContent(posted) ==
    IF IsExc(posted) THEN [exc |-> NoExc, val |-> <<EmptyDict>>]
    ELSE IF IsExc(ResponseJson(posted))
    THEN [exc |-> NoExc, val |-> <<EmptyDict>>]
    ELSE IF posted.status_code # StatusOK
    THEN [exc |-> NoExc, val |-> <<EmptyDict>>]
    ELSE [exc |-> NoExc, val |-> <<ResponseJson(posted)>>]

\* The responses a GeminiClient call is answered with: a good one and each
\* transport failure.
ClientExchanges == { <<i>> : i \in {1} \cup TransportFailures }

\* The call with its outcome r.
ClientCall(x, r) ==
    /\ nops < MaxOps
    /\ last' = [Call("client_generate_content", 0, r.exc) EXCEPT
                  !.resp = x, !.val = r.val, !.posts = 1]
    /\ nops' = nops + 1
    /\ UNCHANGED <<cookies, heap, sessions>>

client_generate_content(x) ==
    ClientCall(x, ClientGenerateContent(
                      ClientPostPrompt(ConstructPayload(<<Str("a")>>),
                                       Responses[x[1]])))

Next ==
    \E s \in Solo :
        \/ \E seed \in Seeds : GeminiSession_init(s, seed)
        \/ \E value \in MetaArgs : metadata_setter(s, value)
        \/ \E value \in SlotArgs : cid_setter(s, value)
        \/ \E value \in SlotArgs : rid_setter(s, value)
        \/ \E value \in SlotArgs : rcid_setter(s, value)
        \/ \E ref \in 1..MaxOutputs : gemini_output_setter(s, ref)
        \/ \E x \in Exchanges, fresh \in FreshJars : send_message(s, x, fresh)
        \/ \E index \in IndexArgs : choose_candidate(s, index)
        \/ \E x \in ClientExchanges : client_generate_content(x)

Spec == Init /\ [][Next]_vars

TypeOK ==
    /\ nops \in 0..MaxOps
    /\ Len(heap) <= MaxOutputs

\* ------------------------------------------------------------------------
\* Two sessions on one client
\* ------------------------------------------------------------------------

\* The inputs of the two-session runs: a good exchange and a failing one,
\* a two-element metadata list, the index 1, no seed or a seed of three
\* ids and an rcid.
TwoExchanges == { <<1>>, <<Len(GoodResponses) + 1>> }

TwoMetaArgs == { SubSeq(CallerIds, 1, 2) }

TwoIndexArgs == { 1 }

TwoSeeds ==
    { <<PyNone, PyNone, PyNone, PyNone>>,
      <<Arr(SubSeq(CallerIds, 1, 3)), PyNone, PyNone, Str("x")>> }

\* gemini.generate_content(prompt) without a session, with the call's
\* outcome r: the output is only returned to the caller.
Generate(rs, r) ==
    /\ Len(heap) < MaxOutputs
    /\ ~IsExc(r.exc)
    /\ heap' = Append(heap, r.out[1])
    /\ cookies' = r.cookies
    /\ last' = [Call("generate_content", 0, r.exc) EXCEPT
                  !.resp = rs, !.out = Len(heap) + 1, !.posts = r.posts]
    /\ UNCHANGED <<sessions, nops>>

generate_content(rs, fresh) ==
    Generate(rs, GenerateContent(ResponsesOf(rs), cookies, fresh))

NextTwo ==
    \/ \E fresh \in FreshJars : generate_content(<<1>>, fresh)
    \/ \E s \in Sessions :
        \/ \E seed \in TwoSeeds : GeminiSession_init(s, seed)
        \/ \E value \in TwoMetaArgs : metadata_setter(s, value)
        \/ \E value \in SlotArgs : cid_setter(s, value)
        \/ \E value \in SlotArgs : rid_setter(s, value)
        \/ \E value \in SlotArgs : rcid_setter(s, value)
        \/ \E ref \in 1..MaxOutputs : gemini_output_setter(s, ref)
        \/ \E x \in TwoExchanges, fresh \in FreshJars : send_message(s, x, fresh)
        \/ \E index \in TwoIndexArgs : choose_candidate(s, index)

SpecTwo == Init /\ [][NextTwo]_vars

\* ------------------------------------------------------------------------
\* Construction alone
\* ------------------------------------------------------------------------

\* The arguments of a construction: no metadata or a list of 0..3 ids, and
\* for each of cid, rid, rcid: None, the empty string, or an id.
IdArgs == { PyNone, Str(""), Str("x") }

InitSeeds ==
    { <<m, c, r, rc>> :
        m \in {PyNone} \cup { Arr(SubSeq(CallerIds, 1, k)) : k \in 0..MetadataLimit },
        c \in IdArgs, r \in IdArgs, rc \in IdArgs }

NextInit == \E s \in Sessions, seed \in InitSeeds : GeminiSession_init(s, seed)

SpecInit == Init /\ [][NextInit]_vars

\* ------------------------------------------------------------------------
\* Properties
\* ------------------------------------------------------------------------

\* The step is a call of op on some session (not a construction, not a
\* stuttering step).
IsCall(op) == nops' = nops + 1 /\ last'.op = op

\* The session and the output object a finished call refers to.
LastSession == sessions[last.s]

LastOutput == heap[last.out]

\* C1: after a successful send_message the session holds the returned
\* output as its gemini_output, the slots covered by the output's metadata
\* equal it (the third being the chosen candidate's id), and the reply
\* candidate id is that of the chosen candidate.
C1_SendRecordsOutput ==
    (last.op = "send_message" /\ ~IsExc(last.exc)) =>
        /\ LastSession.gemini_output = last.out
        /\ \A i \in 1..Len(LastOutput.metadata) :
              i < MetadataLimit => LastSession.metadata[i] = LastOutput.metadata[i]
        /\ Rcid(LastSession.metadata) = OutputRcid(LastOutput)

\* C2: send_message, choose_candidate(1), send_message on one session,
\* the first turn returning at least two candidates: choose_candidate(1)
\* succeeds, and the second request carries the id of candidate 1 of the
\* first turn as its reply candidate id.
C2_BranchThenSend ==
    /\ (/\ last.op = "choose_candidate"
        /\ last.idx = 1
        /\ last.before[1][1] = "send_message"
        /\ last.before[1][2] = last.s
        /\ last.before[1][3]
        /\ Len(heap[last.before[1][5]].candidates) >= 2)
       => ~IsExc(last.exc)
    /\ (/\ last.op = "send_message"
        /\ last.before[1] = <<"choose_candidate", last.s, TRUE, 1, last.before[1][5]>>
        /\ last.before[2][1] = "send_message"
        /\ last.before[2][2] = last.s
        /\ last.before[2][3]
        /\ Len(heap[last.before[2][5]].candidates) >= 2)
       => Rcid(last.req) = heap[last.before[2][5]].candidates[2].rcid

\* C3: a send_message that raises leaves every session's metadata and
\* gemini_output, and every output object, as they were.
C3_FailedTurnChangesNothing ==
    [][(IsCall("send_message") /\ IsExc(last'.exc))
          => (sessions' = sessions /\ heap' = heap)]_vars

\* C3 witness: a turn failed on a session that holds an output and ids.
C3_Witness ==
    /\ last.op = "send_message"
    /\ IsExc(last.exc)
    /\ LastSession.gemini_output # 0
    /\ Cid(LastSession.metadata) # PyNone

\* C4: with a stored output of n candidates, choose_candidate(index) for
\* index >= n raises the index error and changes neither the output's
\* chosen nor the session; choose_candidate(n - 1) returns, sets chosen to
\* n - 1, sets the reply candidate id to candidates[n - 1].rcid and leaves
\* the conversation id and the reply id alone.
C4_ChooseAtTheBound ==
    [][\A s \in Sessions :
        (/\ IsCall("choose_candidate")
         /\ last'.s = s
         /\ sessions[s].gemini_output # 0)
        => LET ref == sessions[s].gemini_output
               n   == Len(heap[ref].candidates)
           IN  /\ last'.idx >= n =>
                    /\ last'.exc = IndexOutOfRange
                    /\ heap' = heap
                    /\ sessions' = sessions
               /\ last'.idx = n - 1 =>
                    /\ ~IsExc(last'.exc)
                    /\ heap'[ref].chosen = n - 1
                    /\ heap'[ref].candidates = heap[ref].candidates
                    /\ Rcid(sessions'[s].metadata) = heap[ref].candidates[n].rcid
                    /\ Cid(sessions'[s].metadata) = Cid(sessions[s].metadata)
                    /\ Rid(sessions'[s].metadata) = Rid(sessions[s].metadata)
                    /\ sessions'[s].gemini_output = ref]_vars

\* C4 witness: the last candidate of two was chosen, and it is not the one
\* the session pointed at before.
C4_Witness ==
    /\ last.op = "choose_candidate"
    /\ ~IsExc(last.exc)
    /\ last.idx = 1
    /\ Len(LastOutput.candidates) = 2
    /\ LastOutput.chosen = 1
    /\ Rcid(LastSession.metadata) = LastOutput.candidates[2].rcid
    /\ Rcid(LastSession.metadata) # LastOutput.candidates[1].rcid

C6_RecordingAppliesMetadataThenRcid ==
    (last.op = "gemini_output") =>
        /\ LastSession.gemini_output = last.out
        /\ ~IsExc(last.exc) =>
              /\ \A i \in 1..Len(LastOutput.metadata) :
                    i < MetadataLimit =>
                        LastSession.metadata[i] = LastOutput.metadata[i]
              /\ Rcid(LastSession.metadata) = OutputRcid(LastOutput)
        /\ Kind(last.exc) = "ValueError" =>
              Len(LastOutput.metadata) > MetadataLimit

\* C6 witness: the recorded output's metadata has a third element that is
\* not the chosen candidate's id.
C6_Witness ==
    /\ last.op = "gemini_output"
    /\ ~IsExc(last.exc)
    /\ Len(LastOutput.metadata) = MetadataLimit
    /\ LastOutput.metadata[3] # OutputRcid(LastOutput)
    /\ Rcid(LastSession.metadata) = OutputRcid(LastOutput)

\* C7: session.metadata = values with k = len(values) <= 3 returns, slot i
\* reads values[i] for i < k and what it held before for i >= k.
C7_SetMetadataOverwritesPrefix ==
    [][\A s \in Sessions :
        (/\ IsCall("metadata")
         /\ last'.s = s
         /\ Len(last'.val) <= MetadataLimit)
        => /\ ~IsExc(last'.exc)
           /\ Len(sessions'[s].metadata) = Len(sessions[s].metadata)
           /\ \A i \in 1..Len(sessions[s].metadata) :
                 sessions'[s].metadata[i] =
                     IF i <= Len(last'.val) THEN last'.val[i]
                     ELSE sessions[s].metadata[i]]_vars

\* C7 witness: a two-element list was set on a session whose third slot
\* held an id, which is still there.
C7_Witness ==
    /\ last.op = "metadata"
    /\ Len(last.val) = 2
    /\ Cid(LastSession.metadata) = last.val[1]
    /\ Rid(LastSession.metadata) = last.val[2]
    /\ Rcid(LastSession.metadata) = Str("x")

\* C7 witness on a fresh session: the slot the list does not cover reads
\* None.
C7_WitnessUnset ==
    /\ last.op = "metadata"
    /\ Len(last.val) = 1
    /\ Rcid(LastSession.metadata) = PyNone

\* C8: session.metadata = values with more than 3 elements raises
\* ValueError and leaves the three slots and the output as they were.
C8_LongMetadataRejected ==
    [][\A s \in Sessions :
        (/\ IsCall("metadata")
         /\ last'.s = s
         /\ Len(last'.val) > MetadataLimit)
        => /\ Kind(last'.exc) = "ValueError"
           /\ sessions' = sessions
           /\ heap' = heap]_vars

\* C8 witness: a list of four was refused on a session that holds ids.
C8_Witness ==
    /\ last.op = "metadata"
    /\ Len(last.val) = 4
    /\ IsExc(last.exc)
    /\ Cid(LastSession.metadata) # PyNone

\* C9: the metadata list of a session never has more than 3 elements.
C9_MetadataAtMostThree ==
    \A s \in Sessions : Len(sessions[s].metadata) <= MetadataLimit

\* C9 witness: an output whose metadata has more than 3 elements was
\* assigned to a session.
C9_Witness ==
    /\ last.op = "gemini_output"
    /\ Len(LastOutput.metadata) > MetadataLimit
    /\ LastSession.alive

\* The numbers of the responses in the secondary shape, and for each the
\* response carrying the same body in the primary shape.
SecondaryNumbers == (Len(GoodBodies) + 1)..Len(GoodResponses)

PrimaryOf(i) == PrimaryResponses[((i - 1) % Len(GoodBodies)) + 1]

\* C10: a turn answered in the secondary shape returns the candidates (and
\* metadata) that the same body in the primary shape decodes to.
C10_ShapeEquivalence ==
    (/\ last.op = "send_message"
     /\ Len(last.resp) = 1
     /\ last.resp[1] \in SecondaryNumbers)
    => /\ ~IsExc(last.exc)
       /\ ~IsExc(Attempt(PrimaryOf(last.resp[1]), cookies).exc)
       /\ LastOutput.candidates =
             Attempt(PrimaryOf(last.resp[1]), cookies).out[1].candidates
       /\ LastOutput.metadata =
             Attempt(PrimaryOf(last.resp[1]), cookies).out[1].metadata

\* C10 witness: a body of two candidates, one with a web image and one
\* with a generated image, arrived in the secondary shape.
C10_Witness ==
    /\ last.op = "send_message"
    /\ last.resp \in {<<i>> : i \in SecondaryNumbers}
    /\ ~IsExc(last.exc)
    /\ Len(LastOutput.candidates) = 2
    /\ Len(LastOutput.candidates[1].web_images) = 1
    /\ Len(LastOutput.candidates[2].generated_images) = 1

\* The classes of the exceptions of lines 324 and 283.
NoCandidatesKind == "GeminiError"

ParseKind == "APIError"

\* C11 as stated: a turn answered with a body whose candidate list has zero
\* entries fails with the error raised for "no candidates" (GeminiError,
\* line 324), which is not the kind of the parse error, and no output with
\* an empty candidate list is returned.
C11_EmptyListRaisesNoCandidates ==
    /\ (last.op = "send_message" /\ Len(last.resp) = 1
            /\ last.resp[1] \in EmptyCandidateLists)
       => /\ IsExc(last.exc)
          /\ Kind(last.exc) = NoCandidatesKind
          /\ Kind(last.exc) # ParseKind
    /\ \A k \in 1..Len(heap) : heap[k].candidates # <<>>

\* The APIError of line 348, raised when every pass of the retry loop
\* failed.
SessionEstablishmentError == Exc("APIError", "establish session")

\* C12 as stated: a turn whose first exchange is a transport failure or
\* yields zero candidates refreshes the cookies and submits again, at most
\* RetryAttempts more times; it returns when a later exchange is good and
\* raises the terminal error of line 348 when every exchange fails; no call
\* makes more than 1 + RetryAttempts posts.
C12_RetryThenTerminalError ==
    /\ (last.op = "send_message"
            /\ last.resp[1] \in TransportFailures \cup EmptyCandidateLists)
       => /\ cookies \in FreshJars
          /\ last.posts > 1
          /\ Len(last.resp) = 1 => last.exc = SessionEstablishmentError
          /\ Len(last.resp) = 2 => ~IsExc(last.exc)
    /\ last.posts <= 1 + RetryAttempts

\* The exception a turn answered with response i alone ends with.
FailureOf(i) == Attempt(Responses[i], cookies).exc

C14_FailuresSurface ==
    /\ (last.op = "send_message"
            /\ last.resp[1] \in TransportFailures \cup DecodeFailures
                                  \cup ExtractionFailures)
       => IsExc(last.exc)
    /\ (last.op = "client_generate_content"
            /\ last.resp[1] \in TransportFailures)
       => IsExc(last.exc) /\ last.val = <<>>

\* Responses with status 200 that are structurally invalid: the framing
\* line is absent, a document is not JSON, an index is missing, or None
\* stands where a list is expected, in the body or in a candidate entry.
StructurallyInvalid ==
    (DecodeFailures \cup ExtractionFailures) \ EmptyCandidateLists

\* The classes Python raises for a failed subscript.
RawKinds == {"IndexError", "TypeError", "KeyError"}

\* C15 as stated: a turn answered with a structurally invalid response
\* fails with the parse error kind (APIError); no IndexError or TypeError
\* reaches the caller.
C15_InvalidStructureIsParseError ==
    (last.op = "send_message" /\ Len(last.resp) = 1
        /\ last.resp[1] \in StructurallyInvalid)
    => /\ IsExc(last.exc)
       /\ Kind(last.exc) = ParseKind
       /\ Kind(last.exc) \notin RawKinds

\* The logical body response i carries (i a good response), and its raw
\* candidate entries.
BodyOf(i) == GoodBodies[((i - 1) % Len(GoodBodies)) + 1]

EntriesOf(i) == Index(BodyOf(i), 4).a

\* C16: a turn answered with a good response returns an output with one
\* candidate per raw entry of the body's candidate list, in order, whose
\* rcid is entry[0] and whose text is entry[1][0]; chosen is 0 and the
\* output's metadata is element [1] of that same body.
C16_OutputMirrorsBody ==
    (last.op = "send_message" /\ Len(last.resp) = 1
        /\ last.resp[1] \in 1..Len(GoodResponses))
    => /\ ~IsExc(last.exc)
       /\ Len(LastOutput.candidates) = Len(EntriesOf(last.resp[1]))
       /\ \A k \in 1..Len(EntriesOf(last.resp[1])) :
             /\ LastOutput.candidates[k].rcid
                   = Index(EntriesOf(last.resp[1])[k], 0)
             /\ LastOutput.candidates[k].text
                   = Path2(EntriesOf(last.resp[1])[k], 1, 0)
       /\ LastOutput.chosen = 0
       /\ LastOutput.metadata = Index(BodyOf(last.resp[1]), 1).a

\* C16 witness: a body of two entries arrived at the secondary location,
\* whose primary body carries another metadata list.
C16_Witness ==
    /\ last.op = "send_message"
    /\ last.resp \in {<<i>> : i \in SecondaryNumbers}
    /\ ~IsExc(last.exc)
    /\ LastOutput.candidates[1].rcid = Str("p")
    /\ Len(LastOutput.candidates) = 2
    /\ LastOutput.candidates[2].rcid = Str("q")
    /\ LastOutput.metadata = SubSeq(MetaIds, 1, 3)

\* Responses whose single candidate entry stops before index 4, and before
\* index 12 (index 4 being None).
EntryWithoutIndex4 ==
    NumbersOf({ PrimaryShape(Body(MetaOfLen(3),
                    Arr(<<Arr(<<Str("p"), Arr(<<Str("t")>>)>>)>>))) })

EntryWithoutIndex12 ==
    NumbersOf({ PrimaryShape(Body(MetaOfLen(3),
                    Arr(<<Arr(<<Str("p"), Arr(<<Str("t")>>), N, N, N>>)>>))) })

\* The number of elements of a raw field that is a list, 0 for None.
Count(field) == IF field.t = "arr" THEN Len(field.a) ELSE 0

\* C17 as stated: each candidate has one web image per element of
\* entry[4] and none when entry[4] is None or absent; generated images
\* only when entry[12][7][0] is there, none when entry[12] is None or
\* absent; an entry without index 4 or without index 12 does not make the
\* turn fail.
C17_OptionalImageFields ==
    /\ (last.op = "send_message" /\ Len(last.resp) = 1
            /\ last.resp[1] \in 1..Len(GoodResponses))
       => /\ ~IsExc(last.exc)
          /\ \A k \in 1..Len(EntriesOf(last.resp[1])) :
                /\ Len(LastOutput.candidates[k].web_images)
                      = Count(Index(EntriesOf(last.resp[1])[k], 4))
                /\ Len(LastOutput.candidates[k].generated_images) > 0
                      => Truthy(Path3(EntriesOf(last.resp[1])[k], 12, 7, 0))
    /\ (last.op = "send_message" /\ Len(last.resp) = 1
            /\ last.resp[1] \in EntryWithoutIndex4 \cup EntryWithoutIndex12)
       => /\ ~IsExc(last.exc)
          /\ LastOutput.candidates[1].web_images = <<>>
          /\ LastOutput.candidates[1].generated_images = <<>>

\* The GeminiOutput object session t holds in heap hp, as <<>> or <<it>>.
HeldOutput(ss, hp, t) ==
    IF ss[t].gemini_output = 0 THEN <<>> ELSE <<hp[ss[t].gemini_output]>>

\* C18 as stated: a step of session s changes, for every other session t,
\* neither t's metadata, nor the output t holds (which object, and that
\* object's content), nor the client's cookies.
C18_SessionsIsolated ==
    [][\A s, t \in Sessions :
        (last'.s = s /\ t # s)
        => /\ sessions'[t] = sessions[t]
           /\ HeldOutput(sessions', heap', t) = HeldOutput(sessions, heap, t)
           /\ cookies' = cookies]_vars

\* C18 amended: a step of session s changes neither another session's
\* metadata, nor which output it holds, nor the cookies; the content of
\* the output t holds changes only by a choose_candidate on a session that
\* holds the same GeminiOutput object, which sets its chosen index.
C18_IsolatedUnlessOutputShared ==
    [][\A s, t \in Sessions :
        (last'.s = s /\ t # s)
        => /\ sessions'[t] = sessions[t]
           /\ cookies' = cookies
           /\ HeldOutput(sessions', heap', t) # HeldOutput(sessions, heap, t)
              => /\ last'.op = "choose_candidate"
                 /\ sessions[s].gemini_output = sessions[t].gemini_output
                 /\ HeldOutput(sessions', heap', t)[1] =
                       [HeldOutput(sessions, heap, t)[1] EXCEPT
                           !.chosen = last'.idx]]_vars

\* C18 witness: both sessions hold outputs, not the same one, and a
\* candidate was chosen on one of them.
C18_Witness ==
    /\ last.op = "choose_candidate"
    /\ ~IsExc(last.exc)
    /\ \A t \in Sessions : sessions[t].gemini_output # 0
    /\ sessions[1].gemini_output # sessions[2].gemini_output
    /\ heap[sessions[last.s].gemini_output].chosen = 1
    /\ \E t \in Sessions : heap[sessions[t].gemini_output].chosen = 0

\* C18 witness of the shared case: both sessions hold the same output and a
\* candidate was chosen on one of them.
C18_WitnessShared ==
    /\ last.op = "choose_candidate"
    /\ ~IsExc(last.exc)
    /\ sessions[1].gemini_output # 0
    /\ sessions[1].gemini_output = sessions[2].gemini_output
    /\ Rcid(sessions[1].metadata) # Rcid(sessions[2].metadata)

\* What the metadata list of a seed gives slot i (1..3): its i-th element,
\* None when there is no list or the list is shorter.
ListSlot(seed, i) ==
    IF seed[1] # PyNone /\ i <= Len(seed[1].a) THEN seed[1].a[i] ELSE PyNone

C20_ChosenInRange ==
    /\ \A s \in Sessions :
          sessions[s].gemini_output # 0
          => /\ heap[sessions[s].gemini_output].chosen >= 0
             /\ heap[sessions[s].gemini_output].chosen
                   < Len(heap[sessions[s].gemini_output].candidates)
    /\ (last.op = "choose_candidate" /\ last.idx < 0) => IsExc(last.exc)

\* C21 as stated: assigning to session.gemini_output an output whose
\* metadata has more than 3 elements raises and leaves the session as it
\* was: it still refers to the output it held before (or to none) and its
\* three slots are unchanged; and a session never holds an output whose
\* metadata has more than 3 elements.
C21_RecordingAllOrNothing ==
    [][\A s \in Sessions :
        (/\ IsCall("gemini_output")
         /\ last'.s = s
         /\ Len(heap[last'.out].metadata) > MetadataLimit)
        => /\ IsExc(last'.exc)
           /\ sessions'[s].metadata = sessions[s].metadata
           /\ sessions'[s].gemini_output = sessions[s].gemini_output
           /\ sessions'[s].gemini_output # last'.out]_vars

====
